---- MODULE Spec2Model ----
(***************************************************************************)
(* A model of tqdm.h (src/unnamed/part_000), the single-header terminal    *)
(* progress bar: tqdm_init, tqdm_update and its render pipeline, the       *)
(* SIGWINCH handler and the terminal they talk to.                         *)
(*                                                                         *)
(* The main flow is single-threaded.  tqdm_update is cut into steps at the *)
(* accesses of the shared flag _tqdm_winch, because the signal handler may *)
(* run at any instruction boundary of it; once a call has begun, only its  *)
(* own next step, the clock and the terminal can move.                     *)
(*                                                                         *)
(* Scaling.  TLC's integers are 32 bits wide, so uint64_t is modelled      *)
(* modulo U64Mod and unsigned int modulo UIntMod; times are milliseconds   *)
(* up to MaxTime.  Floating point is modelled by exact rational arithmetic *)
(* on the integers it is computed from.  total_steps = 0 (a division by    *)
(* zero the design calls a caller error) is outside the model.             *)
(*                                                                         *)
(* Spec is one bar with the terminal resized under it; SpecRender lays     *)
(* lines out over wider inputs on a terminal that keeps its size; SpecFail *)
(* lets the output of a redraw fail; SpecHelpers applies the cell loop,    *)
(* _tqdm_format_time and two redraws in a row on their own, to arguments   *)
(* beyond those of the small bars; SpecUnits is two bars in a program of   *)
(* two source files, each with its own copy of the header's statics.       *)
(***************************************************************************)
EXTENDS Integers, Sequences, FiniteSets, TLC

\* ------------------------------------------------------------------ bounds
U64Mod == 8
MaxTime == 3
MaxCalls == 2
MaxSum == 10
\* SpecUnits: the steps of all bars together, and the clock
MaxUnitSum == 4
MaxUnitTime == 2

\* uint64_t, unsigned int and int, scaled
UIntMod == 2^16
\* a variant of U64 that saturates instead of wrapping
U64Saturating(x) == IF x >= U64Mod THEN U64Mod - 1 ELSE x
\* a variant of U64 of half the bits
U64Narrow(x) == x % (U64Mod \div 2)
U64(x) == x % U64Mod
UInt(x) == x % UIntMod
\* a variant of ToInt that leaves the (int) cast out
ToIntUncast(x) == x
ToInt(x) == IF x >= UIntMod \div 2 THEN x - UIntMod ELSE x
IntMax == UIntMod \div 2 - 1
IntMin == -(UIntMod \div 2)
\* (int)x of a double with integer part x >= 0: the value when int holds it;
\* otherwise the conversion is undefined, and the builds give the "integer
\* indefinite" value (x86) or saturate
CastToInt(x) == IF x <= IntMax THEN {x} ELSE {IntMin, IntMax}
\* C's / and % on int: the quotient truncates toward zero
CDiv(a, b) == IF a >= 0 THEN a \div b ELSE -((-a) \div b)
CRem(a, b) == a - b * CDiv(a, b)

\* ------------------------------------------------------- program constants
TQDM_DEFAULT_TERMINAL_WIDTH == 80
TQDM_MINIMUM_TERMINAL_WIDTH == 10
TQDM_MAXIMUM_TERMINAL_WIDTH == 1024
TQDM_MINIMUM_BAR_WIDTH == 1
TQDM_EMPTY_IDX == 0
TQDM_FULL_IDX == 8
BarSize == 1024
AfterBarSize == 128
StrSize == 32
LineSize == TQDM_MAXIMUM_TERMINAL_WIDTH

\* strlen(TQDM_BLOCKS[idx]): the blank is one byte, every block glyph three
BlockLen(idx) == IF idx = TQDM_EMPTY_IDX THEN 1 ELSE 3

MIN(a, b) == IF a < b THEN a ELSE b
MAX(a, b) == IF a > b THEN a ELSE b
\* a variant of CLAMP that leaves the upper bound out
ClampBelow(x, low, high) == MAX(x, low)
CLAMP(x, low, high) == MIN(MAX(x, low), high)

\* ------------------------------------------------------------ input sets
Bars == {1, 2}
NoTty == -1
\* ws_col values a terminal reports: an ordinary one, one above the maximum
Cols == {120, 2000}
Totals == {3}
DescLens == {4}
MinIntervals == {0, 2}
Steps == {0, 1, U64Mod - 1}
\* the wider inputs of the render pipeline: a terminal reporting no columns,
\* a narrow, a wide and an oversized one; no, a short and a long description
RenderCols == {0, 5, 400, 2000}
RenderTotals == {2, 3}
RenderDescLens == {0, 4, 90}

VARIABLES
  dyn,        \* TQDM_DYNAMIC_RESIZE, the build switch
  now,        \* CLOCK_MONOTONIC, in ms
  term,       \* the terminal behind _fd: NoTty (ioctl fails) or its ws_col
  winch,      \* _tqdm_winch
  installed,  \* _tqdm_install_sigwinch's static installed
  alive,      \* the bars tqdm_init has run on
  t,          \* t[b]: the tqdm struct of bar b
  pc,         \* where the main flow stands
  cur,        \* the bar of the tqdm_update call in progress
  loc,        \* the locals of the tqdm_update call in progress
  out,        \* out[b]: what has been written for bar b
  g,          \* g[b]: history of bar b's calls
  sig,        \* history of the resize notifications
  fail,       \* how the output of the latest tqdm_update call failed, if it did
  fn,         \* a helper applied on its own: its arguments and its result
  disposition, \* the process's disposition of SIGWINCH: the handler that is
              \* registered (0 none, 1 this file's, 2 the second file's) and
              \* the number of signal() calls made
  unit2       \* _tqdm_winch and installed as a second source file that
              \* includes the header has them: both are static

vars == <<dyn, now, term, winch, installed, alive, t, pc, cur, loc, out, g, sig,
          fail, fn, disposition, unit2>>

\* ------------------------------------------------------------ formatting
\* the number of characters printf's %d / %llu gives a value n >= 0
RECURSIVE Digits(_)
Digits(n) == IF n < 10 THEN 1 ELSE 1 + Digits(n \div 10)

\* _tqdm_terminal_size: the width the ioctl query yields on terminal tm
_tqdm_terminal_size(tm) ==
  IF tm = NoTty THEN TQDM_DEFAULT_TERMINAL_WIDTH
  ELSE IF tm # 0
       THEN CLAMP(tm, TQDM_MINIMUM_TERMINAL_WIDTH, TQDM_MAXIMUM_TERMINAL_WIDTH)
       ELSE TQDM_DEFAULT_TERMINAL_WIDTH

\* _tqdm_format_time of the duration num/den ms (den > 0): the fields printed.
\* (int)(ms / 1000 + 0.5) truncates, which floors the non-negative value.
\* The fields are TimeFields of (int)(ms / 1000 + 0.5), SecondsOf before the cast.
SecondsOf(num, den) == (2 * num + 1000 * den) \div (2000 * den)

TimeFields(total_seconds) ==
  [h |-> CDiv(total_seconds, 3600),
   m |-> CDiv(CRem(total_seconds, 3600), 60),
   s |-> CRem(total_seconds, 60)]

_tqdm_format_time(num, den) == TimeFields(SecondsOf(num, den))

\* what printf's %02d gives n, as a sequence of characters
DigitChars == <<"0", "1", "2", "3", "4", "5", "6", "7", "8", "9">>
RECURSIVE Decimal(_)
Decimal(n) ==
  IF n < 10 THEN <<DigitChars[n + 1]>>
  ELSE Decimal(n \div 10) \o <<DigitChars[(n % 10) + 1]>>
Pad2(n) ==
  IF n < 0 THEN <<"-">> \o Decimal(-n)
  ELSE IF n < 10 THEN <<"0">> \o Decimal(n) ELSE Decimal(n)

\* the buffer _tqdm_format_time fills: "%02d:%02d:%02d" if h > 0, else "%02d:%02d"
TimeText(f) ==
  IF f.h > 0
  THEN Pad2(f.h) \o <<":">> \o Pad2(f.m) \o <<":">> \o Pad2(f.s)
  ELSE Pad2(f.m) \o <<":">> \o Pad2(f.s)

\* strlen of the buffer _tqdm_format_time fills: "%02d:%02d:%02d" or "%02d:%02d"
TimeLen(f) ==
  MIN(IF f.h > 0 THEN MAX(2, Digits(f.h)) + 6 ELSE 5, StrSize - 1)

\* steps_per_ms = current_steps / (elapsed + 1e-9), as "%.2f" prints it:
\* with elapsed = 0 the value is current_steps * 10^9 (e9), otherwise it lies
\* just below current_steps / elapsed and h is its nearest hundredth.
StepsPerMs(c, elapsed) ==
  IF elapsed = 0
  THEN [e9 |-> TRUE, h |-> c]
  ELSE LET q == (100 * c) \div elapsed
           r == (100 * c) % elapsed
       IN  [e9 |-> FALSE, h |-> q + (IF 2 * r > elapsed THEN 1 ELSE 0)]

\* strlen(steps_per_ms_str), a 32-byte buffer
RateLen(rate) ==
  MIN(IF rate.e9
      THEN (IF rate.h = 0 THEN 4 ELSE Digits(rate.h) + 9 + 3)
      ELSE Digits(rate.h \div 100) + 3,
      StrSize - 1)

\* percent_complete * 100 as "%3.0f" prints it: the nearest integer, ties to even
Percent(c, total) ==
  LET q == (100 * c) \div total
      r == (100 * c) % total
  IN  IF 2 * r < total THEN q
      ELSE IF 2 * r > total THEN q + 1
      ELSE IF q % 2 = 0 THEN q ELSE q + 1

\* a variant of BeforeBarLength that leaves the ": " after the description out
BeforeBarLengthNoSeparator(b, pct) ==
  b.description + MAX(3, Digits(pct)) + 3

\* before_bar_length: snprintf's count for "%s%s%3.0f%% |"
BeforeBarLength(b, pct) ==
  b.description + b._after_description + MAX(3, Digits(pct)) + 3

\* after_bar_length: snprintf's count for "| %llu/%llu [%s<%s, %sit/s]"
AfterBarLength(b, elapsed_len, remaining_len, rate_len) ==
  13 + Digits(b.current_steps) + Digits(b.total_steps)
     + elapsed_len + remaining_len + rate_len

\* ---------------------------------------------------------------- render
\* a variant of FilledFloor that fills the bar with what remains to be done
FilledFloorRemaining(c, total, bar_width) ==
  (MAX(total - c, 0) * bar_width) \div total

\* lines 269-271, 280: filled_cells = percent_complete * bar_width is
\* c * bar_width / total; FilledFloor is its integer part and FracIdx is
\* (ssize_t)(fractional_cell * 8) when full_cells is that integer part
FilledFloor(c, total, bar_width) == (c * bar_width) \div total
FracIdx(c, total, bar_width) == (8 * ((c * bar_width) % total)) \div total

\* lines 274-286: the TQDM_BLOCKS index of each of the bar_width cells
Cells(bar_width, full_cells, idx) ==
  [i \in 1..bar_width |->
     IF i - 1 < full_cells THEN TQDM_FULL_IDX
     ELSE IF i - 1 = full_cells THEN idx
     ELSE TQDM_EMPTY_IDX]

\* a variant of Orient that puts the cursor-reset escape on every line
OrientAlways(b) == TRUE

\* line 242: whether orient is the cursor-reset escape "\r\033[K"
Orient(b) == b._drawn

\* The line tqdm_update composes for struct b at terminal width `width`, with
\* the clock read now_ms: the lengths and the cells, not the bytes themselves.
Render(b, width, now_ms) ==
  LET c == b.current_steps
      total == b.total_steps
      elapsed == now_ms - b._start
      rate == StepsPerMs(c, elapsed)
      pct == Percent(c, total)
      \* remaining = (total - current) / steps_per_ms, or 0
      remaining == IF c > 0 /\ c < total
                   THEN _tqdm_format_time((total - c) * elapsed, c)
                   ELSE _tqdm_format_time(0, 1)
      esc == Orient(b)
      orient_len == IF esc THEN 4 ELSE 0
      before == BeforeBarLength(b, pct)
      after == AfterBarLength(b, TimeLen(_tqdm_format_time(elapsed, 1)),
                              TimeLen(remaining), RateLen(rate))
      nonbar_width == UInt(before + after)
      bar_width == MAX(ToInt(UInt(width - nonbar_width)), TQDM_MINIMUM_BAR_WIDTH)
      \* (int)filled_cells: within int for every c, total and width of the
      \* specifications that render
      full_cells == FilledFloor(c, total, bar_width)
      frac_idx == FracIdx(c, total, bar_width)
      \* the bytes the loop memcpy's: 3 a full block, strlen of the partial one,
      \* 1 a blank
      n_full == MIN(full_cells, bar_width)
      cell_bytes == IF full_cells < bar_width
                    THEN n_full * BlockLen(TQDM_FULL_IDX) + BlockLen(frac_idx)
                         + (bar_width - full_cells - 1) * BlockLen(TQDM_EMPTY_IDX)
                    ELSE n_full * BlockLen(TQDM_FULL_IDX)
      bar_pos == orient_len + before + cell_bytes
  IN  [esc |-> esc, width |-> width, pct |-> pct,
       before |-> before, after |-> after,
       bar_width |-> bar_width, full_cells |-> full_cells, frac_idx |-> frac_idx,
       bar_pos |-> bar_pos,
       \* written = snprintf(line, sizeof(line), "%s%s", bar, after_bar)
       written |-> bar_pos + MIN(after, AfterBarSize - 1)]

\* bar[bar_pos] = 0 lands outside bar[1024], or write() is handed more bytes
\* than line[1024] holds: undefined behaviour
Overrun(r) == r.bar_pos >= BarSize \/ r.written > LineSize

NoRender == [esc |-> FALSE, width |-> 0, pct |-> 0, before |-> 0, after |-> 0,
             bar_width |-> 0, full_cells |-> 0, frac_idx |-> 0,
             bar_pos |-> 0, written |-> 0]

\* ----------------------------------------------------------------- state
NoBar == [total_steps |-> 1, current_steps |-> 0, description |-> 0,
          _after_description |-> 0, min_interval_ms |-> 0, _start |-> 0,
          _last_print |-> 0, _drawn |-> FALSE, _term_width |-> 0]

NoLocals == [now_ms |-> 0, last_ms |-> 0, force_redraw |-> FALSE, width |-> 0,
             r |-> NoRender]

\* History of a bar's calls, for the properties: the calls begun (counted up
\* to MaxCalls) and the sum of their steps; of the latest call, when it began,
\* whether a line had been drawn before it (drawnPre), whether it began less
\* than min_interval_ms after _last_print (inWindow) and after the previous
\* call began (nearPrev), whether it found the flag set (flagSeen), whether no
\* notification came between the previous test of the flag and its own
\* (quiet), and the lines it wrote; of the call before it, prevWrote, prevFlag.
NoCalls == [calls |-> 0, sum |-> 0, began |-> 0, drawnPre |-> FALSE,
            inWindow |-> FALSE, nearPrev |-> FALSE, flagSeen |-> FALSE,
            quiet |-> FALSE, wrote |-> 0, prevWrote |-> 0, prevFlag |-> FALSE]

\* fail.kind: "none", "write" (write() returned -1) or "format" (snprintf
\* returned a negative count); fail.diag: the notice was printed on stderr
NoFail == [kind |-> "none", diag |-> FALSE]

NoFn == [op |-> "none"]

InitOn(cols) ==
  /\ dyn \in BOOLEAN
  /\ now = 0
  /\ term \in cols \cup {NoTty}
  /\ winch = 0
  /\ installed = FALSE
  /\ alive = {}
  /\ t = [b \in Bars |-> NoBar]
  /\ pc = "idle"
  /\ cur = 1
  /\ loc = NoLocals
  /\ out = [b \in Bars |-> [n |-> 0, esc |-> FALSE, shown |-> 0]]
  /\ g = [b \in Bars |-> NoCalls]
  \* unserved: a notification has been delivered since the latest width query;
  \* owed: one delivered before the latest call began has not been followed by
  \* a written line; sinceRead: one has been delivered since the latest test
  \* of the flag
  /\ sig = [unserved |-> FALSE, owed |-> FALSE, sinceRead |-> FALSE]
  /\ fail = NoFail
  /\ disposition = [handler |-> 0, calls |-> 0]
  /\ unit2 = [installed |-> FALSE, winch |-> 0]

Init == InitOn(Cols) /\ fn = NoFn

\* ----------------------------------------------------------- environment
\* The monotonic clock moves on.  tqdm_update reads it once, as it begins, so
\* time that passes inside a call is time that passes after it.
Tick ==
  /\ pc = "idle"
  /\ now < MaxTime
  /\ now' = now + 1
  /\ UNCHANGED <<dyn, term, winch, installed, alive, t, pc, cur, loc, out, g, sig, fail, fn,
                 disposition, unit2>>

\* _tqdm_handle_sigwinch
_tqdm_handle_sigwinch ==
  /\ winch' = 1
  /\ sig' = [sig EXCEPT !.unserved = TRUE, !.sinceRead = TRUE]
  /\ UNCHANGED unit2

\* the same handler as the second source file has it: it sets that file's flag
_tqdm_handle_sigwinch_unit2 ==
  /\ unit2' = [unit2 EXCEPT !.winch = 1]
  /\ UNCHANGED <<winch, sig>>

\* SIGWINCH is raised, at any instruction boundary of the main flow: the
\* terminal behind _fd, if it is one, now has c columns.  Without a handler the
\* signal is ignored; with one, the handler that runs is the one the latest
\* signal() call registered.
Resize(c) ==
  /\ pc # "crashed"
  /\ term' = IF term = NoTty THEN NoTty ELSE c
  /\ CASE disposition.handler = 1 -> _tqdm_handle_sigwinch
       [] disposition.handler = 2 -> _tqdm_handle_sigwinch_unit2
       [] OTHER -> UNCHANGED <<winch, sig, unit2>>
  /\ UNCHANGED <<dyn, now, installed, alive, t, pc, cur, loc, out, g, fail, fn,
                 disposition>>

\* ------------------------------------------------------------- tqdm_init
\* signal(SIGWINCH, handler) makes `handler` the process's handler
signal(handler) ==
  disposition' = [handler |-> handler, calls |-> disposition.calls + 1]

_tqdm_install_sigwinch ==
  /\ IF ~installed THEN signal(1) ELSE UNCHANGED disposition
  /\ installed' = TRUE

tqdm_init(b, total_steps, description, min_interval_ms) ==
  /\ pc = "idle"
  /\ b \notin alive
  /\ alive' = alive \cup {b}
  /\ t' = [t EXCEPT ![b] =
             [total_steps |-> total_steps,
              current_steps |-> 0,
              description |-> description,
              _after_description |-> IF description > 0 THEN 2 ELSE 0,
              min_interval_ms |-> min_interval_ms,
              _start |-> now,
              _last_print |-> now,
              _drawn |-> FALSE,
              _term_width |-> _tqdm_terminal_size(term)]]
  /\ IF dyn THEN _tqdm_install_sigwinch
            ELSE UNCHANGED <<installed, disposition>>
  /\ UNCHANGED <<dyn, now, term, winch, pc, cur, loc, out, g, sig, fail, fn,
                 unit2>>

\* the struct tqdm_init leaves behind
InitialBar(total_steps, description, min_interval_ms) ==
  [total_steps |-> total_steps,
   current_steps |-> 0,
   description |-> description,
   _after_description |-> IF description > 0 THEN 2 ELSE 0,
   min_interval_ms |-> min_interval_ms,
   _start |-> now,
   _last_print |-> now,
   _drawn |-> FALSE,
   _term_width |-> _tqdm_terminal_size(term)]

\* _tqdm_install_sigwinch as the second source file has it, with that file's
\* installed and that file's handler
_tqdm_install_sigwinch_unit2 ==
  /\ IF ~unit2.installed THEN signal(2) ELSE UNCHANGED disposition
  /\ unit2' = [unit2 EXCEPT !.installed = TRUE]

\* tqdm_init, called in the second source file
tqdm_init_unit2(b, total_steps, description, min_interval_ms) ==
  /\ pc = "idle"
  /\ b \notin alive
  /\ alive' = alive \cup {b}
  /\ t' = [t EXCEPT ![b] = InitialBar(total_steps, description, min_interval_ms)]
  /\ IF dyn THEN _tqdm_install_sigwinch_unit2
            ELSE UNCHANGED <<unit2, disposition>>
  /\ UNCHANGED <<dyn, now, term, winch, installed, pc, cur, loc, out, g, sig,
                 fail, fn>>

\* ----------------------------------------------------------- tqdm_update
\* lines 200-205: read the clock and _last_print, add the step
tqdm_update_begin(b, step) ==
  /\ pc = "idle"
  /\ b \in alive
  /\ g[b].sum + step <= MaxSum
  /\ cur' = b
  /\ loc' = [NoLocals EXCEPT !.now_ms = now, !.last_ms = t[b]._last_print]
  /\ t' = [t EXCEPT ![b].current_steps = U64(@ + step)]
  \* with TQDM_DYNAMIC_RESIZE 0 the flag's block is compiled out
  /\ pc' = IF dyn THEN "flag" ELSE "throttle"
  /\ g' = [g EXCEPT ![b] =
             [@ EXCEPT !.calls = MIN(@ + 1, MaxCalls), !.sum = @ + step,
                       !.began = now,
                       !.drawnPre = t[b]._drawn,
                       !.inWindow = (now - t[b]._last_print < t[b].min_interval_ms),
                       !.nearPrev = (now - g[b].began < t[b].min_interval_ms),
                       !.flagSeen = FALSE, !.quiet = FALSE, !.wrote = 0,
                       !.prevWrote = g[b].wrote, !.prevFlag = g[b].flagSeen]]
  /\ sig' = [sig EXCEPT !.owed = sig.unserved]
  /\ fail' = NoFail
  /\ UNCHANGED <<dyn, now, term, winch, installed, alive, out, fn,
                 disposition, unit2>>

\* line 208: the test of _tqdm_winch
tqdm_update_test_winch ==
  /\ pc = "flag"
  /\ pc' = IF winch # 0 THEN "clear" ELSE "throttle"
  /\ g' = [g EXCEPT ![cur].flagSeen = (winch # 0),
                    ![cur].quiet = ~sig.sinceRead]
  /\ sig' = [sig EXCEPT !.sinceRead = FALSE]
  /\ UNCHANGED <<dyn, now, term, winch, installed, alive, t, cur, loc, out, fail, fn,
                 disposition, unit2>>

\* a variant of tqdm_update_reset_winch that forces the redraw and leaves the
\* flag set
tqdm_update_keep_winch ==
  /\ pc = "clear"
  /\ winch' = winch
  /\ loc' = [loc EXCEPT !.force_redraw = TRUE]
  /\ pc' = "throttle"
  /\ UNCHANGED <<dyn, now, term, installed, alive, t, cur, out, g, sig, fail, fn,
                 disposition, unit2>>

\* lines 209-210: reset the flag, force the redraw
tqdm_update_reset_winch ==
  /\ pc = "clear"
  /\ winch' = 0
  /\ loc' = [loc EXCEPT !.force_redraw = TRUE]
  /\ pc' = "throttle"
  /\ UNCHANGED <<dyn, now, term, installed, alive, t, cur, out, g, sig, fail, fn,
                 disposition, unit2>>

\* a variant of Throttled whose window is one millisecond short
ThrottledShort(b, l) ==
  /\ b._drawn
  /\ ~l.force_redraw
  /\ l.now_ms - l.last_ms + 1 < b.min_interval_ms
  /\ b.current_steps < b.total_steps

\* a variant of Throttled that counts the interval from _start
ThrottledFromStart(b, l) ==
  /\ b._drawn
  /\ ~l.force_redraw
  /\ l.now_ms - b._start < b.min_interval_ms
  /\ b.current_steps < b.total_steps

\* lines 215-218: the condition of the early return
Throttled(b, l) ==
  /\ b._drawn
  /\ ~l.force_redraw
  /\ l.now_ms - l.last_ms < b.min_interval_ms
  /\ b.current_steps < b.total_steps

\* a variant of tqdm_update_skip that notes the time of the skipped call
tqdm_update_skip_stamps ==
  /\ pc = "throttle"
  /\ Throttled(t[cur], loc)
  /\ t' = [t EXCEPT ![cur]._last_print = loc.now_ms]
  /\ pc' = "idle"
  /\ loc' = NoLocals
  /\ UNCHANGED <<dyn, now, term, winch, installed, alive, cur, out, g, sig, fail, fn,
                 disposition, unit2>>

\* lines 215-220: the early return
tqdm_update_skip ==
  /\ pc = "throttle"
  /\ Throttled(t[cur], loc)
  /\ pc' = "idle"
  /\ loc' = NoLocals
  /\ UNCHANGED <<dyn, now, term, winch, installed, alive, t, cur, out, g, sig, fail, fn,
                 disposition, unit2>>

\* a variant of tqdm_update_width that always takes the cached width
tqdm_update_width_cached ==
  /\ pc = "throttle"
  /\ ~Throttled(t[cur], loc)
  /\ loc' = [loc EXCEPT !.width = t[cur]._term_width]
  /\ pc' = "render"
  /\ sig' = IF dyn THEN [sig EXCEPT !.unserved = FALSE] ELSE sig
  /\ UNCHANGED <<dyn, now, term, winch, installed, alive, t, cur, out, g, fail, fn,
                 disposition, unit2>>

\* lines 215-225: no early return; the width is queried, or the cached one taken
tqdm_update_width ==
  /\ pc = "throttle"
  /\ ~Throttled(t[cur], loc)
  /\ loc' = [loc EXCEPT !.width = IF dyn THEN _tqdm_terminal_size(term)
                                         ELSE t[cur]._term_width]
  /\ pc' = "render"
  /\ sig' = IF dyn THEN [sig EXCEPT !.unserved = FALSE] ELSE sig
  /\ UNCHANGED <<dyn, now, term, winch, installed, alive, t, cur, out, g, fail, fn,
                 disposition, unit2>>

\* lines 227-292: compose the line in bar[], after_bar[] and line[]
tqdm_update_compose ==
  /\ pc = "render"
  /\ loc' = [loc EXCEPT !.r = Render(t[cur], loc.width, loc.now_ms)]
  /\ pc' = "write"
  /\ UNCHANGED <<dyn, now, term, winch, installed, alive, t, cur, out, g, sig, fail, fn,
                 disposition, unit2>>

\* lines 294-302: write the line, note the redraw
tqdm_update_write ==
  /\ pc = "write"
  /\ out' = [out EXCEPT ![cur] =
               IF loc.r.written >= 0
               THEN [n |-> MIN(@.n + 1, MaxCalls), esc |-> loc.r.esc,
                     shown |-> t[cur].current_steps]
               ELSE @]
  /\ g' = [g EXCEPT ![cur].wrote = IF loc.r.written >= 0 THEN 1 ELSE 0]
  /\ t' = [t EXCEPT ![cur]._last_print = loc.now_ms, ![cur]._drawn = TRUE]
  /\ pc' = "idle"
  /\ loc' = NoLocals
  /\ sig' = IF loc.r.written >= 0 THEN [sig EXCEPT !.owed = FALSE] ELSE sig
  /\ UNCHANGED <<dyn, now, term, winch, installed, alive, cur, fail, fn,
                 disposition, unit2>>

\* lines 283-295 when the composition overran bar[] or line[]: the behaviour
\* is undefined.  Besides going on as written (tqdm_update_write) the build
\* may kill the process, before the write (w = 0) or after it (w = 1).
tqdm_update_overrun(w) ==
  /\ pc = "write"
  /\ Overrun(loc.r)
  /\ out' = [out EXCEPT ![cur] =
               IF w = 1 THEN [n |-> MIN(@.n + 1, MaxCalls), esc |-> loc.r.esc,
                     shown |-> t[cur].current_steps]
               ELSE @]
  /\ g' = [g EXCEPT ![cur].wrote = w]
  /\ pc' = "crashed"
  /\ sig' = IF w = 1 THEN [sig EXCEPT !.owed = FALSE] ELSE sig
  /\ UNCHANGED <<dyn, now, term, winch, installed, alive, t, cur, loc, fail, fn,
                 disposition, unit2>>

\* lines 294-302 when write() fails and returns -1 (a closed descriptor):
\* nothing reaches the terminal; the result of write() is not looked at
tqdm_update_write_fails ==
  /\ pc = "write"
  /\ fail' = [kind |-> "write", diag |-> FALSE]
  /\ t' = [t EXCEPT ![cur]._last_print = loc.now_ms, ![cur]._drawn = TRUE]
  /\ pc' = "idle"
  /\ loc' = NoLocals
  /\ UNCHANGED <<dyn, now, term, winch, installed, alive, cur, out, g, sig, fn,
                 disposition, unit2>>

\* lines 292-302 when snprintf returns a negative count: the notice goes to
\* stderr, the line is not written
tqdm_update_format_fails ==
  /\ pc = "write"
  /\ fail' = [kind |-> "format", diag |-> TRUE]
  /\ t' = [t EXCEPT ![cur]._last_print = loc.now_ms, ![cur]._drawn = TRUE]
  /\ pc' = "idle"
  /\ loc' = NoLocals
  /\ UNCHANGED <<dyn, now, term, winch, installed, alive, cur, out, g, sig, fn,
                 disposition, unit2>>

\* ------------------------------------------------------- specifications
\* one bar, advanced by a single-threaded caller
OneBar == {1}

Next ==
  \/ Tick
  \/ \E c \in Cols : Resize(c)
  \/ \E b \in OneBar, total \in Totals, d \in DescLens, mi \in MinIntervals :
       tqdm_init(b, total, d, mi)
  \/ \E b \in OneBar, step \in Steps : tqdm_update_begin(b, step)
  \/ tqdm_update_test_winch
  \/ tqdm_update_reset_winch
  \/ tqdm_update_skip
  \/ tqdm_update_width
  \/ tqdm_update_compose
  \/ tqdm_update_write
  \/ \E w \in {0, 1} : tqdm_update_overrun(w)

Spec == Init /\ [][Next]_vars

\* the render pipeline over its wider inputs, on a terminal nobody resizes
InitRender == InitOn(RenderCols) /\ fn = NoFn

NextRender ==
  \/ Tick
  \/ \E b \in OneBar, total \in RenderTotals, d \in RenderDescLens,
        mi \in MinIntervals :
       tqdm_init(b, total, d, mi)
  \/ \E b \in OneBar, step \in Steps : tqdm_update_begin(b, step)
  \/ tqdm_update_test_winch
  \/ tqdm_update_skip
  \/ tqdm_update_width
  \/ tqdm_update_compose
  \/ tqdm_update_write
  \/ \E w \in {0, 1} : tqdm_update_overrun(w)

SpecRender == InitRender /\ [][NextRender]_vars

\* a bar whose output can fail, on a terminal of ordinary width that nobody
\* resizes
FailCols == {120}

InitFail == InitOn(FailCols) /\ fn = NoFn

NextFail ==
  \/ Tick
  \/ \E b \in OneBar, total \in Totals, d \in DescLens, mi \in MinIntervals :
       tqdm_init(b, total, d, mi)
  \/ \E b \in OneBar, step \in Steps : tqdm_update_begin(b, step)
  \/ tqdm_update_test_winch
  \/ tqdm_update_skip
  \/ tqdm_update_width
  \/ tqdm_update_compose
  \/ tqdm_update_write
  \/ tqdm_update_write_fails
  \/ tqdm_update_format_fails

SpecFail == InitFail /\ [][NextFail]_vars

\* two bars in a program of two source files that include the header: either
\* file constructs bars, the first file advances them
UnitCols == {120}
UnitSteps == {1}
UnitMinIntervals == {2}

InitUnits == InitOn(UnitCols) /\ fn = NoFn /\ dyn /\ term # NoTty

NextUnits ==
  \/ now < MaxUnitTime /\ Tick
  \/ \E c \in UnitCols : Resize(c)
  \/ \E b \in Bars, total \in Totals, d \in DescLens, mi \in UnitMinIntervals :
       tqdm_init(b, total, d, mi)
  \/ \E b \in Bars, total \in Totals, d \in DescLens, mi \in UnitMinIntervals :
       tqdm_init_unit2(b, total, d, mi)
  \/ \E b \in Bars, step \in UnitSteps :
       g[1].sum + g[2].sum + step <= MaxUnitSum /\ tqdm_update_begin(b, step)
  \/ tqdm_update_test_winch
  \/ tqdm_update_reset_winch
  \/ tqdm_update_skip
  \/ tqdm_update_width
  \/ tqdm_update_compose
  \/ tqdm_update_write

SpecUnits == InitUnits /\ [][NextUnits]_vars

\* ------------------------------------------------- the helpers on their own
\* The cell loop of lines 268-286 and _tqdm_format_time, applied to arguments
\* beyond those the small bars above give them.  int is scaled as unsigned
\* int is, so a filled_cells or a number of seconds above IntMax stands for
\* one above INT_MAX.
CellSteps == {0, 1, 2, 3, 40000}
CellTotals == {1, 2, 3}
CellWidths == {1, 2, 3, 30}
\* durations in ms, as num / den
TimeNums == {0, 499, 500, 1499, 1500, 45000, 3599499, 3599500, 3725000, 40000000}
TimeDens == {1, 3}

CellArgs ==
  {a \in {[op |-> "cells", done |-> FALSE, c |-> c, c2 |-> c2, total |-> total,
           bar_width |-> bw, full_cells |-> 0, full_cells2 |-> 0, idx |-> 0,
           cells |-> <<>>, cells2 |-> <<>>] :
             c \in CellSteps, c2 \in CellSteps, total \in CellTotals,
             bw \in CellWidths} :
     a.c <= a.c2}

TimeArgs ==
  {[op |-> "time", done |-> FALSE, num |-> num, den |-> den,
    total_seconds |-> 0, text |-> <<>>] :
     num \in TimeNums, den \in TimeDens}

\* two successive redraws of one bar, at progress c and then c2 >= c, the
\* clock at now_ms and then now_ms2 >= now_ms, the terminal at one width
RedrawTotals == {10, 1100}
RedrawSteps == {5, 9, 10, 99, 100, 998, 1000, 1100}
RedrawTimes == {100, 200}
RedrawWidths == {80, 400}

RedrawArgs ==
  {a \in {[op |-> "redraws", done |-> FALSE, total |-> total, width |-> w,
           c |-> c, c2 |-> c2, now_ms |-> e, now_ms2 |-> e2,
           bar_width |-> 0, bar_width2 |-> 0, cells |-> <<>>, cells2 |-> <<>>] :
             total \in RedrawTotals, w \in RedrawWidths,
             c \in RedrawSteps, c2 \in RedrawSteps,
             e \in RedrawTimes, e2 \in RedrawTimes} :
     a.c <= a.c2 /\ a.now_ms <= a.now_ms2}

InitHelpers == InitOn({}) /\ fn \in CellArgs \cup TimeArgs \cup RedrawArgs

\* lines 269-286 at progress fn.c of fn.total and, at the same bar_width, at
\* progress fn.c2
ApplyCells ==
  /\ fn.op = "cells" /\ ~fn.done
  /\ \E fc \in CastToInt(FilledFloor(fn.c, fn.total, fn.bar_width)),
        fc2 \in CastToInt(FilledFloor(fn.c2, fn.total, fn.bar_width)) :
       LET idx == FracIdx(fn.c, fn.total, fn.bar_width)
           idx2 == FracIdx(fn.c2, fn.total, fn.bar_width)
       IN  fn' = [fn EXCEPT !.done = TRUE,
                            !.full_cells = fc, !.full_cells2 = fc2, !.idx = idx,
                            !.cells = Cells(fn.bar_width, fc, idx),
                            !.cells2 = Cells(fn.bar_width, fc2, idx2)]
  /\ UNCHANGED <<dyn, now, term, winch, installed, alive, t, pc, cur, loc, out,
                 g, sig, fail, disposition, unit2>>

\* _tqdm_format_time(fn.num / fn.den, buffer, 32)
ApplyFormatTime ==
  /\ fn.op = "time" /\ ~fn.done
  /\ \E ts \in CastToInt(SecondsOf(fn.num, fn.den)) :
       fn' = [fn EXCEPT !.done = TRUE, !.total_seconds = ts,
                        !.text = TimeText(TimeFields(ts))]
  /\ UNCHANGED <<dyn, now, term, winch, installed, alive, t, pc, cur, loc, out,
                 g, sig, fail, disposition, unit2>>

\* the struct of a bar tqdm_init set up at time 0 with the description
\* "DDDD", drawn once or more, at progress c
DrawnBar(total, c, width) ==
  [total_steps |-> total, current_steps |-> c, description |-> 4,
   _after_description |-> 2, min_interval_ms |-> 0, _start |-> 0,
   _last_print |-> 0, _drawn |-> TRUE, _term_width |-> width]

\* lines 222-288 twice: the cells of the two lines
ApplyRedraws ==
  /\ fn.op = "redraws" /\ ~fn.done
  /\ LET r == Render(DrawnBar(fn.total, fn.c, fn.width), fn.width, fn.now_ms)
         r2 == Render(DrawnBar(fn.total, fn.c2, fn.width), fn.width, fn.now_ms2)
     IN  fn' = [fn EXCEPT !.done = TRUE,
                          !.bar_width = r.bar_width, !.bar_width2 = r2.bar_width,
                          !.cells = Cells(r.bar_width, r.full_cells, r.frac_idx),
                          !.cells2 = Cells(r2.bar_width, r2.full_cells, r2.frac_idx)]
  /\ UNCHANGED <<dyn, now, term, winch, installed, alive, t, pc, cur, loc, out,
                 g, sig, fail, disposition, unit2>>

NextHelpers == ApplyCells \/ ApplyFormatTime \/ ApplyRedraws

SpecHelpers == InitHelpers /\ [][NextHelpers]_vars

\* ================================================================ claims
\* A call of tqdm_update on bar b has returned and none is in progress.
Returned(b) == b \in alive /\ pc = "idle" /\ g[b].calls > 0

\* The latest call on bar b is over: it has returned, or the process was
\* killed in it.
Ended(b) ==
  /\ b \in alive /\ g[b].calls > 0
  /\ pc = "idle" \/ (pc = "crashed" /\ cur = b)

\* the latest call on b found the resize flag set (dynamic resizing on)
Forced(b) == dyn /\ g[b].flagSeen

\* the latest call on b left current_steps below total_steps
Incomplete(b) == t[b].current_steps < t[b].total_steps

\* what the claims call throttled: a line had been drawn before the call, it
\* found no resize flag, it began less than min_interval_ms after _last_print
\* and it left current_steps below total_steps
InThrottle(b) ==
  g[b].drawnPre /\ ~Forced(b) /\ g[b].inWindow /\ Incomplete(b)

\* C1 as stated: a call of tqdm_update wrote nothing iff it was throttled, and
\* exactly one line otherwise; the first call after tqdm_init wrote a line.
C1_AsStated ==
  \A b \in Bars :
    Ended(b) =>
      /\ g[b].wrote \in {0, 1}
      /\ (g[b].wrote = 0) <=> InThrottle(b)
      /\ (g[b].calls = 1 => g[b].wrote = 1)

\* C1 of the calls that return: the same.
C1_WhenReturned ==
  \A b \in Bars :
    Returned(b) =>
      /\ g[b].wrote \in {0, 1}
      /\ (g[b].wrote = 0) <=> InThrottle(b)
      /\ (g[b].calls = 1 => g[b].wrote = 1)

\* C2 as stated: of two consecutive calls on a bar less than min_interval_ms
\* apart, with no resize flag and below completion, the second wrote nothing.
C2_AsStated ==
  \A b \in Bars :
    (Ended(b) /\ g[b].calls >= 2 /\ g[b].nearPrev /\ ~Forced(b) /\ Incomplete(b))
      => g[b].wrote = 0

\* C2, amended: the same when the first of the two calls wrote a line (so that
\* _last_print is the time it began).
C2_ThrottleLaw ==
  \A b \in Bars :
    (/\ Ended(b) /\ g[b].calls >= 2 /\ g[b].prevWrote = 1
     /\ g[b].nearPrev /\ ~Forced(b) /\ Incomplete(b))
      => g[b].wrote = 0

\* the second call, throttled right after one that wrote
C2_Witness ==
  \E b \in Bars :
    /\ Returned(b) /\ g[b].calls >= 2 /\ g[b].prevWrote = 1
    /\ g[b].nearPrev /\ ~Forced(b) /\ Incomplete(b) /\ g[b].wrote = 0

\* C3 as stated: a call that left current_steps = total_steps wrote a line,
\* whatever the time since _last_print and whatever min_interval_ms.
C3_AsStated ==
  \A b \in Bars :
    (Ended(b) /\ t[b].current_steps = t[b].total_steps) => g[b].wrote = 1

\* C3 of the calls that return: the same.
C3_WhenReturned ==
  \A b \in Bars :
    (Returned(b) /\ t[b].current_steps = t[b].total_steps) => g[b].wrote = 1

\* C4 as stated: with dynamic resizing on, a call that found the resize flag
\* set wrote a line and, no notification having come since its test of the
\* flag, left the flag cleared; the next call, with no notification between
\* the two tests, inside the throttle window and below completion, wrote
\* nothing.
C4_AsStated ==
  \A b \in Bars :
    /\ (Ended(b) /\ Forced(b)) =>
         /\ g[b].wrote = 1
         /\ (~sig.sinceRead => winch = 0)
    /\ (/\ Ended(b) /\ dyn /\ g[b].calls >= 2 /\ g[b].prevFlag /\ g[b].quiet
        /\ g[b].inWindow /\ Incomplete(b))
         => g[b].wrote = 0

\* C4 of the calls that return: the same.
C4_WhenReturned ==
  \A b \in Bars :
    /\ (Returned(b) /\ Forced(b)) =>
         /\ g[b].wrote = 1
         /\ (~sig.sinceRead => winch = 0)
    /\ (/\ Returned(b) /\ dyn /\ g[b].calls >= 2 /\ g[b].prevFlag /\ g[b].quiet
        /\ g[b].inWindow /\ Incomplete(b))
         => g[b].wrote = 0

\* C5 as stated: when a call of tqdm_update is over, every resize notification
\* delivered before it began has been followed by a redraw whose width query
\* came after the notification.
C5_AsStated == (pc = "idle" \/ pc = "crashed") => ~sig.owed

\* C5 of the calls that return: the same.
C5_WhenReturned == pc = "idle" => ~sig.owed

\* C6 as stated: current_steps is the sum of the steps of the calls so far.
C6_AsStated ==
  \A b \in alive : t[b].current_steps = g[b].sum

\* C6, amended: current_steps is that sum modulo 2^64 (here U64Mod).
C6_SumOfSteps ==
  \A b \in alive : t[b].current_steps = g[b].sum % U64Mod

\* the sum has passed the modulus
C6_Witness ==
  \E b \in alive : g[b].calls >= 2 /\ g[b].sum >= U64Mod /\ pc = "idle"

\* C7 as stated: a redraw that follows another comes at least min_interval_ms
\* after it.
C7_AsStated ==
  \A b \in Bars :
    (Ended(b) /\ g[b].wrote = 1 /\ g[b].drawnPre) => ~g[b].inWindow

\* C7, amended: unless it is forced, by a consumed resize flag or by
\* current_steps >= total_steps.
C7_RedrawSpacing ==
  \A b \in Bars :
    (Ended(b) /\ g[b].wrote = 1 /\ g[b].drawnPre /\ ~Forced(b) /\ Incomplete(b))
      => ~g[b].inWindow

\* an unforced redraw of a drawn bar with a throttle interval
C7_Witness ==
  \E b \in Bars :
    /\ Returned(b) /\ g[b].wrote = 1 /\ g[b].drawnPre /\ ~Forced(b)
    /\ Incomplete(b) /\ ~g[b].inWindow /\ t[b].min_interval_ms > 0

C9_AsStated ==
  pc \in {"write", "crashed"} =>
    /\ loc.r.bar_pos + 1 <= BarSize
    /\ loc.r.written <= LineSize

\* C10: bar_width is max(width - len(prefix) - len(suffix), MINIMUM_BAR_WIDTH),
\* so at least one cell, also when the prefix and suffix exceed the width.
C10_BarWidthFloor ==
  pc \in {"write", "crashed"} =>
    /\ loc.r.bar_width =
         MAX(loc.r.width - loc.r.before - loc.r.after, TQDM_MINIMUM_BAR_WIDTH)
    /\ loc.r.bar_width >= TQDM_MINIMUM_BAR_WIDTH

\* a terminal narrower than the prefix and suffix: the floor applies
C10_Witness ==
  /\ pc = "write"
  /\ loc.r.width < loc.r.before + loc.r.after
  /\ loc.r.bar_width = TQDM_MINIMUM_BAR_WIDTH

\* The characters of a line that take a column: the description, the ": "
\* after a non-empty one, the percentage right-aligned in three columns or
\* more, "% |", one column a cell, and the suffix.
VisiblePrefix(b, r) ==
  b.description + (IF b.description > 0 THEN 2 ELSE 0) + MAX(3, Digits(r.pct)) + 3

VisibleWidth(b, r) ==
  VisiblePrefix(b, r) + r.bar_width + MIN(r.after, AfterBarSize - 1)

\* C11: a composed line takes no more columns than the detected width
\* whenever width - len(prefix) - len(suffix) >= TQDM_MINIMUM_BAR_WIDTH; only
\* under the floor does it take more.
C11_VisibleWidth ==
  pc \in {"write", "crashed"} =>
    LET b == t[cur]
        r == loc.r
    IN  /\ (r.width - VisiblePrefix(b, r) - r.after >= TQDM_MINIMUM_BAR_WIDTH)
             => VisibleWidth(b, r) <= r.width
        /\ VisibleWidth(b, r) > r.width
             => r.bar_width = TQDM_MINIMUM_BAR_WIDTH

\* a line that fills the width exactly, with more than one cell
C11_Witness ==
  /\ pc = "write"
  /\ loc.r.bar_width > TQDM_MINIMUM_BAR_WIDTH
  /\ VisibleWidth(t[cur], loc.r) = loc.r.width

\* the cells of a sequence that are the full block
FullCount(cells) == Cardinality({i \in DOMAIN cells : cells[i] = TQDM_FULL_IDX})

\* C12 as stated: with current_steps >= total_steps every one of the
\* bar_width cells is the full block, and the percentage is 100 when
\* current_steps = total_steps and above 100 beyond it.
C12_AsStated ==
  (fn.op = "cells" /\ fn.done /\ fn.c >= fn.total) =>
    /\ Len(fn.cells) = fn.bar_width
    /\ \A i \in 1..fn.bar_width : fn.cells[i] = TQDM_FULL_IDX
    /\ (fn.c = fn.total => Percent(fn.c, fn.total) = 100)
    /\ (fn.c > fn.total => Percent(fn.c, fn.total) > 100)

\* C12 of the renders whose filled_cells an int holds: the same.
C12_WithinInt ==
  (/\ fn.op = "cells" /\ fn.done /\ fn.c >= fn.total
   /\ FilledFloor(fn.c, fn.total, fn.bar_width) <= IntMax) =>
    /\ Len(fn.cells) = fn.bar_width
    /\ \A i \in 1..fn.bar_width : fn.cells[i] = TQDM_FULL_IDX
    /\ (fn.c = fn.total => Percent(fn.c, fn.total) = 100)
    /\ (fn.c > fn.total => Percent(fn.c, fn.total) > 100)

\* r is num / den ms rounded to the nearest whole second, a half going up
NearestSecond(r, num, den) ==
  /\ (2 * r - 1) * 1000 * den <= 2 * num
  /\ 2 * num < (2 * r + 1) * 1000 * den

\* a field printed with two digits, or more when it needs them
TwoDigits(field) ==
  /\ Len(field) >= 2
  /\ \A i \in 1..Len(field) : \E d \in 1..10 : field[i] = DigitChars[d]

\* C13 as stated: _tqdm_format_time prints the duration rounded to the nearest
\* second, as hh:mm:ss when that is an hour or more and as mm:ss otherwise,
\* minutes and seconds below 60, every field of two digits; 45000 ms gives
\* 00:45 and 3725000 ms gives 01:02:05.
C13_AsStated ==
  (fn.op = "time" /\ fn.done) =>
    LET f == TimeFields(fn.total_seconds)
        hh == Pad2(f.h)
    IN  /\ NearestSecond(fn.total_seconds, fn.num, fn.den)
        /\ f.h * 3600 + f.m * 60 + f.s = fn.total_seconds
        /\ f.m \in 0..59 /\ f.s \in 0..59
        /\ TwoDigits(Pad2(f.m)) /\ TwoDigits(Pad2(f.s)) /\ TwoDigits(hh)
        /\ fn.text = IF fn.total_seconds >= 3600
                     THEN hh \o <<":">> \o Pad2(f.m) \o <<":">> \o Pad2(f.s)
                     ELSE Pad2(f.m) \o <<":">> \o Pad2(f.s)
        /\ (fn.num = 45000 /\ fn.den = 1)
             => fn.text = <<"0", "0", ":", "4", "5">>
        /\ (fn.num = 3725000 /\ fn.den = 1)
             => fn.text = <<"0", "1", ":", "0", "2", ":", "0", "5">>

\* C13 of the durations whose seconds an int holds: the same.
C13_WithinInt ==
  (fn.op = "time" /\ fn.done /\ SecondsOf(fn.num, fn.den) <= IntMax) =>
    LET f == TimeFields(fn.total_seconds)
        hh == Pad2(f.h)
    IN  /\ NearestSecond(fn.total_seconds, fn.num, fn.den)
        /\ f.h * 3600 + f.m * 60 + f.s = fn.total_seconds
        /\ f.m \in 0..59 /\ f.s \in 0..59
        /\ TwoDigits(Pad2(f.m)) /\ TwoDigits(Pad2(f.s)) /\ TwoDigits(hh)
        /\ fn.text = IF fn.total_seconds >= 3600
                     THEN hh \o <<":">> \o Pad2(f.m) \o <<":">> \o Pad2(f.s)
                     ELSE Pad2(f.m) \o <<":">> \o Pad2(f.s)
        /\ (fn.num = 45000 /\ fn.den = 1)
             => fn.text = <<"0", "0", ":", "4", "5">>
        /\ (fn.num = 3725000 /\ fn.den = 1)
             => fn.text = <<"0", "1", ":", "0", "2", ":", "0", "5">>

\* k is floor(fraction * 8), fraction the fractional part of
\* filled = c * bar_width / total and floor the integer part of filled
EighthsOf(k, floor, c, total, bar_width) ==
  /\ k * total <= 8 * (c * bar_width - floor * total)
  /\ 8 * (c * bar_width - floor * total) < (k + 1) * total

\* C19 as stated: with full_cells = floor(filled), cell i is the full block
\* if i < full_cells, the block of index floor(fraction * 8) if
\* i = full_cells and the blank otherwise; every index is within 0..8, and
\* fraction = 1/2 selects index 4.
C19_AsStated ==
  (fn.op = "cells" /\ fn.done) =>
    LET floor == FilledFloor(fn.c, fn.total, fn.bar_width)
    IN  /\ Len(fn.cells) = fn.bar_width
        /\ \A i \in 0..(fn.bar_width - 1) :
             /\ fn.cells[i + 1] \in TQDM_EMPTY_IDX..TQDM_FULL_IDX
             /\ i < floor => fn.cells[i + 1] = TQDM_FULL_IDX
             /\ i = floor =>
                  /\ EighthsOf(fn.cells[i + 1], floor, fn.c, fn.total, fn.bar_width)
                  /\ (2 * (fn.c * fn.bar_width - floor * fn.total) = fn.total
                        => fn.cells[i + 1] = 4)
             /\ i > floor => fn.cells[i + 1] = TQDM_EMPTY_IDX

\* C19 of the renders whose filled_cells an int holds: the same.
C19_WithinInt ==
  (/\ fn.op = "cells" /\ fn.done
   /\ FilledFloor(fn.c, fn.total, fn.bar_width) <= IntMax) =>
    LET floor == FilledFloor(fn.c, fn.total, fn.bar_width)
    IN  /\ Len(fn.cells) = fn.bar_width
        /\ \A i \in 0..(fn.bar_width - 1) :
             /\ fn.cells[i + 1] \in TQDM_EMPTY_IDX..TQDM_FULL_IDX
             /\ i < floor => fn.cells[i + 1] = TQDM_FULL_IDX
             /\ i = floor =>
                  /\ EighthsOf(fn.cells[i + 1], floor, fn.c, fn.total, fn.bar_width)
                  /\ (2 * (fn.c * fn.bar_width - floor * fn.total) = fn.total
                        => fn.cells[i + 1] = 4)
             /\ i > floor => fn.cells[i + 1] = TQDM_EMPTY_IDX

\* C20 as stated: at one bar_width and one total_steps, progress c <= c2
\* gives no more full cells than progress c2.
C20_AsStated ==
  (fn.op = "cells" /\ fn.done) => FullCount(fn.cells) <= FullCount(fn.cells2)

\* C20 of the renders whose filled_cells an int holds: the same.
C20_WithinInt ==
  (/\ fn.op = "cells" /\ fn.done
   /\ FilledFloor(fn.c2, fn.total, fn.bar_width) <= IntMax) =>
    FullCount(fn.cells) <= FullCount(fn.cells2)

\* the width the claim gives a terminal: the default when the query fails or
\* reports no columns, otherwise the columns brought into the band
WidthOf(tm) ==
  IF tm = NoTty \/ tm = 0 THEN TQDM_DEFAULT_TERMINAL_WIDTH
  ELSE IF tm < TQDM_MINIMUM_TERMINAL_WIDTH THEN TQDM_MINIMUM_TERMINAL_WIDTH
  ELSE IF tm > TQDM_MAXIMUM_TERMINAL_WIDTH THEN TQDM_MAXIMUM_TERMINAL_WIDTH
  ELSE tm

\* C14: on a terminal that keeps its size, the width cached by tqdm_init and
\* the width every render lays the line out with are WidthOf the terminal,
\* within TQDM_MINIMUM_TERMINAL_WIDTH..TQDM_MAXIMUM_TERMINAL_WIDTH.
C14_WidthBand ==
  /\ \A b \in alive :
       /\ t[b]._term_width = WidthOf(term)
       /\ t[b]._term_width
            \in TQDM_MINIMUM_TERMINAL_WIDTH..TQDM_MAXIMUM_TERMINAL_WIDTH
  /\ pc \in {"render", "write", "crashed"} =>
       /\ loc.width = WidthOf(term)
       /\ loc.width \in TQDM_MINIMUM_TERMINAL_WIDTH..TQDM_MAXIMUM_TERMINAL_WIDTH

\* a render on a terminal that reports more columns than the maximum
C14_Witness ==
  /\ pc = "render"
  /\ term > TQDM_MAXIMUM_TERMINAL_WIDTH
  /\ loc.width = TQDM_MAXIMUM_TERMINAL_WIDTH

\* C15 as stated: when the output of a tqdm_update call that was not
\* throttled has failed, in write() or in formatting, the notice has been
\* printed on stderr and the call has returned.
C15_AsStated ==
  \A b \in Bars :
    (Ended(b) /\ fail.kind # "none") => (fail.diag /\ pc = "idle")

\* C15 of a formatting failure: the same.
C15_FormatFailure ==
  \A b \in Bars :
    (Ended(b) /\ fail.kind = "format") => (fail.diag /\ pc = "idle")

\* C16: with dynamic resizing off a render takes the width tqdm_init cached,
\* no redraw is forced and the flag is never set; with it on a render takes
\* the width of the terminal as it is when the call queries it.  Either way
\* the width a render began with is the width it ends with.
C16_WidthSource ==
  [][/\ (pc = "throttle" /\ pc' = "render") =>
          loc'.width = IF dyn THEN WidthOf(term) ELSE t[cur]._term_width
     /\ (~dyn /\ pc' \in {"render", "write"}) =>
          (~loc'.force_redraw /\ winch' = 0)
     /\ (pc \in {"render", "write"} /\ pc' \in {"render", "write", "crashed"}) =>
          loc'.width = loc.width]_vars

\* dynamic resizing off, the terminal resized since tqdm_init: a render at
\* the cached width, which is not the terminal's any more
C16_Witness ==
  /\ ~dyn
  /\ pc = "write"
  /\ loc.width = t[cur]._term_width
  /\ loc.width # WidthOf(term)

C18_AsStated ==
  [][\A b \in Bars :
       (b \in alive /\ b \in alive') =>
         /\ t'[b].current_steps >= t[b].current_steps
         /\ t'[b].current_steps # t[b].current_steps
              => (pc = "idle" /\ pc' # "idle" /\ cur' = b)
         /\ t'[b].total_steps = t[b].total_steps
         /\ t'[b].min_interval_ms = t[b].min_interval_ms]_vars

\* C18, amended: current_steps never decreases while the steps add up to
\* less than 2^64 (here U64Mod); the rest as stated.
C18_StepsMonotone ==
  [][\A b \in Bars :
       (b \in alive /\ b \in alive') =>
         /\ g'[b].sum < U64Mod => t'[b].current_steps >= t[b].current_steps
         /\ t'[b].current_steps # t[b].current_steps
              => (pc = "idle" /\ pc' # "idle" /\ cur' = b)
         /\ t'[b].total_steps = t[b].total_steps
         /\ t'[b].min_interval_ms = t[b].min_interval_ms]_vars

\* two calls and more have added up to current_steps, below the modulus
C18_Witness ==
  \E b \in Bars :
    /\ Returned(b) /\ g[b].calls >= 2 /\ g[b].sum < U64Mod
    /\ t[b].current_steps >= 2

C22_AsStated ==
  (dyn /\ alive # {}) => disposition.calls = 1

\* C22 within one source file: while every bar is constructed in the same
\* file, one signal() call has been made, and a later tqdm_init leaves a flag
\* that is set as it is.
C22_WithinOneFile ==
  [][(dyn /\ alive' # alive /\ ~unit2'.installed) =>
       (disposition'.calls = 1 /\ disposition'.handler = 1 /\ winch' = winch)]_vars

\* C23 as stated: once a call of tqdm_update is over and current_steps has
\* reached total_steps, the latest line written for the bar shows
\* current_steps.
C23_AsStated ==
  \A b \in Bars :
    (Ended(b) /\ ~Incomplete(b)) =>
      (out[b].n > 0 /\ out[b].shown = t[b].current_steps)

\* C23 of the calls that return, their writes succeeding: the same.
C23_WhenReturned ==
  \A b \in Bars :
    (Returned(b) /\ ~Incomplete(b)) =>
      (out[b].n > 0 /\ out[b].shown = t[b].current_steps)

\* C24: of the bars one source file advances, a call of tqdm_update finds
\* the flag set only if a notification has been delivered since the previous
\* test of the flag, whichever bar that test was for: each forced redraw has
\* a notification of its own.  A call with no such notification, on a bar
\* drawn before, inside that bar's window and below completion, writes
\* nothing, whatever the call before it on another bar did.
C24_OneForcedAdvance ==
  \A b \in Bars :
    /\ g[b].quiet => ~g[b].flagSeen
    /\ (/\ Returned(b) /\ g[b].quiet
        /\ g[b].drawnPre /\ g[b].inWindow /\ Incomplete(b)) => g[b].wrote = 0

\* after a notification the call on bar 1 was forced and wrote its line; the
\* call on bar 2 that followed, with no further notification, inside its
\* window and below completion, wrote nothing
C24_Witness ==
  /\ pc = "idle" /\ cur = 2 /\ alive = Bars
  /\ g[1].flagSeen /\ g[1].wrote = 1 /\ g[1].drawnPre /\ g[1].inWindow
  /\ Incomplete(1)
  /\ g[2].quiet /\ g[2].drawnPre /\ g[2].inWindow /\ Incomplete(2)
  /\ g[2].wrote = 0

====
